---------------------------- MODULE Spec2Model ----------------------------
(***************************************************************************)
(* A model of the two pieces of okinawaa/raon-monorepo:                    *)
(*                                                                         *)
(*   - apps/coffee/app/routes/coffee.suggestion.tsx: the suggestion form   *)
(*     page (react-hook-form + zod + confirmation dialog) and the server   *)
(*     action that parses the posted body and calls createCoffeeInfo;      *)
(*   - contentlayer.config.ts: the rehype passes that annotate code        *)
(*     blocks before and after syntax highlighting.                        *)
(*                                                                         *)
(* Three specifications share the module:                                  *)
(*   Spec          the form page (what the browser does),                  *)
(*   ActionSpec    the server action under arbitrary POST bodies,          *)
(*   PipelineSpec  the code-block passes of the content pipeline.          *)
(*                                                                         *)
(* JavaScript strings are sequences of one-character strings.  An optional *)
(* JavaScript value is a set with at most one element: {} is "absent"      *)
(* (undefined / null / missing key), {x} is "present with value x".        *)
(***************************************************************************)
EXTENDS Integers, Sequences, FiniteSets, TLC

VARIABLES
    form,             \* react-hook-form field values (useForm)
    currentValues,    \* useState<z.infer<typeof formSchema>>(): {} or {values}
    alertDialogOpen,  \* useState(false)
    posts,            \* bodies handed to fetcher.submit, in order
    lastEvent,        \* the last thing the user did on the page
    created,          \* arguments createCoffeeInfo has been called with, in order
    lastReq,          \* {} or {body}: the body of the last request to the action
    lastResp,         \* what createCoffeeInfo answered to the last request
    outcome,          \* how the last action invocation ended
    source,           \* the hast tree the code-block passes started from
    tree,             \* the hast tree (sequence of top-level nodes)
    stage             \* index into rehypePlugins of the next pass to run

vars == <<form, currentValues, alertDialogOpen, posts, lastEvent,
          created, lastReq, lastResp, outcome, source, tree, stage>>

pageVars == <<form, currentValues, alertDialogOpen, posts, lastEvent>>
serverVars == <<created, lastReq, lastResp, outcome>>
pipelineVars == <<source, tree, stage>>

---------------------------------------------------------------------------
(* Bounds of the model.                                                    *)

MaxPosts == 2

MaxRecords == 2

MaxNodes == 2

---------------------------------------------------------------------------
(* JavaScript values of the coffee-info fields.                            *)

\* the value of a present optional
The(s) == CHOOSE x \in s : TRUE

Str(s) == [t |-> "string", v |-> s]

Undef == [t |-> "undefined", v |-> <<>>]

Num == [t |-> "number", v |-> <<>>]

Fields ==
    {"name_kr", "name_en", "note", "region", "farm", "variety", "process", "source"}

OptionalFields == {"region", "farm", "variety", "process", "source"}

\* useForm({ defaultValues: { name_en: "", name_kr: "", ... } })
defaultValues == [f \in Fields |-> Str(<<>>)]

---------------------------------------------------------------------------
(* zod schemas.                                                            *)

\* z.string()
zString(x) == x.t = "string"

\* z.string().min(1, ...)
zStringMin1(x) == zString(x) /\ Len(x.v) >= 1

\* z.string().optional()
zStringOptional(x) == x.t = "undefined" \/ zString(x)

\* String.prototype.split(sep) for a one-character separator: the parts
\* between consecutive separators, empty parts included.
RECURSIVE split(_, _)
split(s, sep) ==
    IF \A i \in 1..Len(s) : s[i] # sep
    THEN <<s>>
    ELSE LET k == CHOOSE i \in 1..Len(s) :
                      s[i] = sep /\ \A j \in 1..(i - 1) : s[j] # sep
         IN  <<SubSeq(s, 1, k - 1)>> \o split(SubSeq(s, k + 1, Len(s)), sep)

\* .refine((note) => note.split(",").length > 1, ...)
noteRefine_atLeastOnePart(x) == Len(split(x.v, ",")) > 0

noteRefine(x) == Len(split(x.v, ",")) > 1

\* the name_kr rule of formSchema
nameKrRule_anyString(x) == zString(x)

nameKrRule(x) == zStringMin1(x)

\* the note rule of formSchema
noteRule(x) == zStringMin1(x) /\ noteRefine(x)

\* formSchema.safeParse(values): the set of fields with an issue
formSchemaIssues(values) ==
    {f \in Fields :
        CASE f = "name_kr" -> ~nameKrRule(values[f])
          [] f = "name_en" -> ~zString(values[f])
          [] f = "note"    -> ~noteRule(values[f])
          [] OTHER         -> ~zStringOptional(values[f])}

formSchema(values) == formSchemaIssues(values) = {}

\* CoffeeInfoDTO: all eight fields are z.string()
CoffeeInfoDTO_nonEmpty(o) == \A f \in Fields : zStringMin1(o[f])

CoffeeInfoDTO_optionalTail(o) ==
    \A f \in Fields : IF f \in OptionalFields THEN zStringOptional(o[f]) ELSE zString(o[f])

CoffeeInfoDTO(o) == \A f \in Fields : zString(o[f])

---------------------------------------------------------------------------
(* Inputs.  The user types strings into the eight inputs; an HTTP client   *)
(* can post any JSON object.                                               *)

NameSamples == {<<>>, <<"a">>}

NoteSamples == {<<>>, <<"a">>, <<"a", ",", "b">>}

\* a distinct text for each of the six free-form fields
FilledText ==
    [f \in Fields |->
        CASE f = "name_en" -> <<"E">>
          [] f = "region"  -> <<"r">>
          [] f = "farm"    -> <<"f">>
          [] f = "variety" -> <<"v">>
          [] f = "process" -> <<"p">>
          [] f = "source"  -> <<"s">>
          [] OTHER         -> <<>>]

Typed(n, t, filled) ==
    [f \in Fields |->
        CASE f = "name_kr" -> Str(n)
          [] f = "note"    -> Str(t)
          [] OTHER         -> Str(IF filled THEN FilledText[f] ELSE <<>>)]

\* what the eight <Input> elements can hold
TypedValues ==
    {Typed(n, t, filled) : n \in NameSamples, t \in NoteSamples, filled \in BOOLEAN}

\* JSON bodies with a missing or non-string field, and the empty object
MalformedBodies ==
    {[Typed(<<"a">>, <<"a", ",", "b">>, TRUE) EXCEPT ![f] = bad] :
        f \in Fields, bad \in {Undef, Num}}
    \cup {[f \in Fields |-> Undef]}

\* JSON bodies whose eight fields are strings
StringBodies ==
    {Typed(n, t, TRUE) : n \in NameSamples, t \in NoteSamples}
    \cup {Typed(<<"a">>, <<"a", ",", "b">>, FALSE)}

Bodies == StringBodies \cup MalformedBodies

---------------------------------------------------------------------------
(* The form page: CoffeeSuggestionPage.                                    *)
(* Edit and Submit are enabled whether or not the dialog is open: the      *)
(* modal dialog only removes behaviours, so what holds here holds with it. *)

\* JSON.stringify / request.json() of the submitted values: strings are
\* kept, a key whose value is undefined is dropped and reads back undefined.
jsonBody(values) ==
    [f \in Fields |-> IF values[f].t = "undefined" THEN Undef ELSE values[f]]

\* function onSubmit(values) { setCurrentValues(values); setAlertDialogOpen(true); }
onSubmit(values) ==
    /\ currentValues' = {values}
    /\ alertDialogOpen' = TRUE

\* <Input {...field} />: the user edits the inputs
Edit(values) ==
    /\ form' = values
    /\ lastEvent' = "edit"
    /\ UNCHANGED <<currentValues, alertDialogOpen, posts>>

\* onSubmit={form.handleSubmit(onSubmit)} with resolver zodResolver(formSchema)
Submit ==
    /\ form' = form
    /\ posts' = posts
    /\ IF formSchema(form)
       THEN /\ onSubmit(form)
            /\ lastEvent' = "accepted"
       ELSE /\ lastEvent' = "rejected"
            /\ UNCHANGED <<currentValues, alertDialogOpen>>

\* the payload of fetcher.submit(currentValues, { encType: "application/json" })
confirmPayload_formValues(cv, f) == jsonBody(f)

confirmPayload(cv, f) == jsonBody(cv)

\* <AlertDialogAction onClick={...}>: posts currentValues, then the dialog
\* closes through onOpenChange(false)
Confirm ==
    /\ alertDialogOpen
    /\ IF currentValues = {}
       THEN posts' = posts
       ELSE /\ Len(posts) < MaxPosts
            /\ posts' = Append(posts,
                   confirmPayload(CHOOSE v \in currentValues : TRUE, form))
    /\ alertDialogOpen' = FALSE
    /\ lastEvent' = "confirm"
    /\ UNCHANGED <<form, currentValues>>

\* <AlertDialogCancel> or Escape: onOpenChange(false)
Cancel ==
    /\ alertDialogOpen
    /\ alertDialogOpen' = FALSE
    /\ lastEvent' = "cancel"
    /\ UNCHANGED <<form, currentValues, posts>>

PageInit ==
    /\ form = defaultValues
    /\ currentValues = {}
    /\ alertDialogOpen = FALSE
    /\ posts = <<>>
    /\ lastEvent = "load"

---------------------------------------------------------------------------
(* The server action and the document database client.                     *)
(* One invocation is one step: its locals are private to the invocation    *)
(* and its only shared effect is the createCoffeeInfo call, so concurrent  *)
(* invocations differ only in the order of those calls.  created logs the  *)
(* calls; the client itself (.server/notion/service) is outside the model. *)

\* responses createCoffeeInfo is handled for: nothing, an object without
\* properties, properties without the ID property, an ID property without
\* unique_id, a unique_id whose number is null, and a unique_id number
IdNumbers == {0, 7}

UniqueIds == {[number |-> {}]} \cup {[number |-> {n}] : n \in IdNumbers}

IdProperties == {[unique_id |-> {}]} \cup {[unique_id |-> {u}] : u \in UniqueIds}

PropertyMaps == {[ID |-> {}]} \cup {[ID |-> {p}] : p \in IdProperties}

ResponseObjects == {[properties |-> {}]} \cup {[properties |-> {m}] : m \in PropertyMaps}

Resolved(r) == [state |-> "resolved", value |-> r]

Rejected == [state |-> "rejected", value |-> {}]

Responses == {Rejected, Resolved({})} \cup {Resolved({o}) : o \in ResponseObjects}

NoResponse == [state |-> "none", value |-> {}]

Redirect(n) == [kind |-> "redirect", to |-> <<"coffee", n>>]

Thrown(e) == [kind |-> e, to |-> <<>>]

NoOutcome == [kind |-> "none", to |-> <<>>]

\* let number = 0;
\* if (response && "properties" in response)
\*   number = response.properties[CoffeeInfoField.ID]?.unique_id.number;
\* return redirect(`/coffee/${number || 0}`);
\* "?." guards only the ID property: reading .number of a missing unique_id
\* is a TypeError.
afterCreate(resp) ==
    IF resp.state = "rejected" THEN Thrown("DbError")
    ELSE IF resp.value = {} \/ The(resp.value).properties = {} THEN Redirect(0)
    ELSE LET id == The(The(resp.value).properties).ID IN
         IF id = {} THEN Redirect(0)
         ELSE IF The(id).unique_id = {} THEN Thrown("TypeError")
         ELSE LET number == The(The(id).unique_id).number IN
              IF number = {} THEN Redirect(0) ELSE Redirect(The(number))

\* const { name_kr, ... } = body; CoffeeInfoDTO.parse({ [NAME_KR]: name_kr, ... })
\* the eight keys are copied one to one
parseInput_dropsSource(body) == [f \in Fields |-> IF f = "source" THEN Str(<<>>) ELSE body[f]]

parseInput(body) == [f \in Fields |-> body[f]]

\* export async function action({ request })
action(body, resp) ==
    /\ lastReq' = {body}
    /\ IF ~CoffeeInfoDTO(parseInput(body))
       THEN /\ outcome' = Thrown("ZodError")
            /\ lastResp' = NoResponse
            /\ created' = created
       ELSE /\ Len(created) < MaxRecords
            /\ created' = Append(created, parseInput(body))
            /\ lastResp' = resp
            /\ outcome' = afterCreate(resp)

ServerInit ==
    /\ created = <<>>
    /\ lastReq = {}
    /\ lastResp = NoResponse
    /\ outcome = NoOutcome

PipelineIdle ==
    /\ source = <<>>
    /\ tree = <<>>
    /\ stage = 0

---------------------------------------------------------------------------
(* The content pipeline: hast nodes.                                       *)

NoProperties ==
    [__src__ |-> {}, __style__ |-> {}, __rawString__ |-> {}, __event__ |-> {},
     __withMeta__ |-> {}, fragment |-> FALSE]

\* fields the passes set on the node itself (node.__event__ = ...)
NoAnnotations == [__event__ |-> {}, __rawString__ |-> {}, __src__ |-> {}, __style__ |-> {}]

Text(v) ==
    [type |-> "text", tagName |-> "", properties |-> NoProperties, children |-> <<>>,
     value |-> {v}, meta |-> {}, ann |-> NoAnnotations]

Element(tag, props, kids) ==
    [type |-> "element", tagName |-> tag, properties |-> props, children |-> kids,
     value |-> {}, meta |-> {}, ann |-> NoAnnotations]

\* <code> with data.meta = meta (an optional string) and one text child
Code(meta, text) == [Element("code", NoProperties, <<Text(text)>>) EXCEPT !.meta = meta]

---------------------------------------------------------------------------
(* The regular expression of the metadata visitor: the text event= , a    *)
(* double quote, any run of characters other than the double quote (the    *)
(* capture group), and a closing double quote.                             *)

EventPrefix == <<"e", "v", "e", "n", "t", "=", "\"">>

Quote == "\""

\* position of the first quote of s at or after position from, 0 if none
RECURSIVE quoteFrom(_, _)
quoteFrom(s, from) ==
    IF from > Len(s) THEN 0
    ELSE IF s[from] = Quote THEN from
    ELSE quoteFrom(s, from + 1)

\* meta.match(regex): {} when there is no match, else the leftmost match as
\* [index, end, group]
RECURSIVE regexMatchFrom(_, _)
regexMatchFrom(s, from) ==
    IF from + Len(EventPrefix) > Len(s) THEN {}
    ELSE LET close == quoteFrom(s, from + Len(EventPrefix)) IN
         IF SubSeq(s, from, from + Len(EventPrefix) - 1) = EventPrefix /\ close > 0
         THEN {[index |-> from, end |-> close,
                group |-> SubSeq(s, from + Len(EventPrefix), close - 1)]}
         ELSE regexMatchFrom(s, from + 1)

regexMatch(s) == regexMatchFrom(s, 1)

\* meta.replace(regex, ""): the regex has no g flag, only the leftmost
\* match is removed
RECURSIVE regexReplace_global(_)
regexReplace_global(s) ==
    LET m == regexMatch(s) IN
    IF m = {} THEN s
    ELSE SubSeq(s, 1, The(m).index - 1)
            \o regexReplace_global(SubSeq(s, The(m).end + 1, Len(s)))

regexReplace(s) ==
    LET m == regexMatch(s) IN
    IF m = {} THEN s
    ELSE SubSeq(s, 1, The(m).index - 1) \o SubSeq(s, The(m).end + 1, Len(s))

\* JavaScript truthiness of an optional string
truthy(opt) == opt # {} /\ The(opt) # <<>>

---------------------------------------------------------------------------
(* rehypePlugins[2]: the pre/code metadata visitor.                        *)

annotateNode(node) ==
    IF node.type = "element" /\ node.tagName = "pre"
    THEN LET codeEl == node.children[1] IN
         IF codeEl.tagName # "code" THEN node
         ELSE LET match == IF truthy(codeEl.meta) THEN regexMatch(The(codeEl.meta)) ELSE {}
                  withEvent ==
                      IF match # {}
                      THEN [node EXCEPT !.ann.__event__ = {The(match).group},
                                        !.children[1].meta = {regexReplace(The(codeEl.meta))}]
                      ELSE node
              IN  [withEvent EXCEPT !.ann.__rawString__ = codeEl.children[1].value,
                                    !.ann.__src__ = node.properties.__src__,
                                    !.ann.__style__ = node.properties.__style__]
    ELSE node

\* visit(tree, callback): the callback on the node, then on its children
RECURSIVE visitAnnotate(_)
visitAnnotate(node) ==
    LET n == annotateNode(node) IN
    [n EXCEPT !.children = [i \in 1..Len(n.children) |-> visitAnnotate(n.children[i])]]

---------------------------------------------------------------------------
(* rehypePlugins[3]: rehypePrettyCode.  A <pre><code> block becomes, in    *)
(* place, <div data-rehype-pretty-code-fragment> holding the highlighted   *)
(* <pre>, after an optional title <div> or before an optional caption.     *)

FragmentShapes == {"pre", "title-pre", "pre-caption"}

highlightedPre(text) == Element("pre", NoProperties, <<Code({}, text)>>)

fragmentChildren(shape, text) ==
    CASE shape = "pre"         -> <<highlightedPre(text)>>
      [] shape = "title-pre"   -> <<Element("div", NoProperties, <<Text(<<"t">>)>>),
                                    highlightedPre(text)>>
      [] shape = "pre-caption" -> <<highlightedPre(text),
                                    Element("div", NoProperties, <<Text(<<"c">>)>>)>>

RECURSIVE highlightNode(_, _)
highlightNode(node, shape) ==
    IF /\ node.type = "element" /\ node.tagName = "pre"
       /\ node.children[1].tagName = "code"
    THEN [node EXCEPT !.tagName = "div",
                      !.properties = [NoProperties EXCEPT !.fragment = TRUE],
                      !.children = fragmentChildren(shape,
                                       The(node.children[1].children[1].value))]
    ELSE [node EXCEPT !.children =
             [i \in 1..Len(node.children) |-> highlightNode(node.children[i], shape)]]

---------------------------------------------------------------------------
(* rehypePlugins[4]: the fragment copy visitor.                            *)

\* if (node.__x__) preElement.properties["__x__"] = node.__x__
copyIfTruthy_always(opt, old) == opt

copyIfTruthy(opt, old) == IF truthy(opt) THEN opt ELSE old

copyNode(node) ==
    IF node.type = "element" /\ node.tagName = "div"
    THEN IF ~node.properties.fragment THEN node
         ELSE LET last == Len(node.children)
                  preElement == node.children[last]
              IN  IF preElement.tagName # "pre" THEN node
                  ELSE [node EXCEPT !.children[last].properties =
                          [preElement.properties EXCEPT
                             !.__withMeta__ = {node.children[1].tagName = "div"},
                             !.__rawString__ = node.ann.__rawString__,
                             !.__src__ = copyIfTruthy(node.ann.__src__, @),
                             !.__event__ = copyIfTruthy(node.ann.__event__, @),
                             !.__style__ = copyIfTruthy(node.ann.__style__, @)]]
    ELSE node

RECURSIVE visitCopy(_)
visitCopy(node) ==
    LET n == copyNode(node) IN
    [n EXCEPT !.children = [i \in 1..Len(n.children) |-> visitCopy(n.children[i])]]

---------------------------------------------------------------------------
(* The documents the passes run on, and the plugin list.  Every pre has a  *)
(* first child and every code element a text child, as in the trees built  *)
(* from fenced code blocks.                                                *)

Ev(x) == EventPrefix \o x \o <<Quote>>

\* codeEl.data?.meta of a fenced code block
MetaSamples ==
    { {},
      {Ev(<<"a">>)},
      {Ev(<<>>)},
      {<<"x", " ">> \o Ev(<<"a">>) \o <<" ", "y">>},
      {Ev(<<"a">>) \o <<" ">> \o Ev(<<"b">>)},
      {EventPrefix \o <<"a">>} }

PropertySamples ==
    { NoProperties,
      [NoProperties EXCEPT !.__src__ = {<<"s">>}, !.__style__ = {<<"n">>}] }

CodeBlocks == {Element("pre", p, <<Code(m, <<"c">>)>>) : p \in PropertySamples, m \in MetaSamples}

OtherNodes ==
    { Element("pre", [NoProperties EXCEPT !.__src__ = {<<"s">>}], <<Text(<<"c">>)>>),
      Element("p", NoProperties, <<Text(<<"c">>)>>),
      Element("div", NoProperties,
              <<Element("pre", [NoProperties EXCEPT !.__src__ = {<<"s">>}],
                        <<Code({Ev(<<"a">>)}, <<"c">>)>>)>>) }

NodeSamples == CodeBlocks \cup OtherNodes

Documents == UNION {[1..n -> NodeSamples] : n \in 1..MaxNodes}

\* mdx.rehypePlugins, the passes that touch code blocks, in list order
rehypePlugins_copyFirst == <<"annotate", "copy", "rehypePrettyCode">>

rehypePlugins == <<"annotate", "rehypePrettyCode", "copy">>

NextPlugin == IF stage \in 1..Len(rehypePlugins) THEN rehypePlugins[stage] ELSE "none"

Annotate ==
    /\ NextPlugin = "annotate"
    /\ tree' = [i \in 1..Len(tree) |-> visitAnnotate(tree[i])]
    /\ stage' = stage + 1
    /\ source' = source

\* the library keeps the fields the metadata visitor put on the node
Highlight ==
    /\ NextPlugin = "rehypePrettyCode"
    /\ \E shapes \in [1..Len(tree) -> FragmentShapes] :
          tree' = [i \in 1..Len(tree) |-> highlightNode(tree[i], shapes[i])]
    /\ stage' = stage + 1
    /\ source' = source

Copy ==
    /\ NextPlugin = "copy"
    /\ tree' = [i \in 1..Len(tree) |-> visitCopy(tree[i])]
    /\ stage' = stage + 1
    /\ source' = source

PipelineInit ==
    /\ PageInit
    /\ ServerInit
    /\ source \in Documents
    /\ tree = source
    /\ stage = 1

PipelineNext ==
    \/ Annotate /\ UNCHANGED <<pageVars, serverVars>>
    \/ Highlight /\ UNCHANGED <<pageVars, serverVars>>
    \/ Copy /\ UNCHANGED <<pageVars, serverVars>>

PipelineSpec == PipelineInit /\ [][PipelineNext]_vars

---------------------------------------------------------------------------
(* Specifications of the form page and of the server action.               *)

Init == PageInit /\ ServerInit /\ PipelineIdle

Next ==
    \/ \E values \in TypedValues : Edit(values) /\ UNCHANGED <<serverVars, pipelineVars>>
    \/ Submit /\ UNCHANGED <<serverVars, pipelineVars>>
    \/ Confirm /\ UNCHANGED <<serverVars, pipelineVars>>
    \/ Cancel /\ UNCHANGED <<serverVars, pipelineVars>>

Spec == Init /\ [][Next]_vars

Post == \E body \in Bodies, resp \in Responses : action(body, resp)

ActionNext == Post /\ UNCHANGED <<pageVars, pipelineVars>>

ActionSpec == Init /\ [][ActionNext]_vars

---------------------------------------------------------------------------
(* Properties of the form page (Spec).                                     *)

IsSubmitStep == lastEvent' \in {"accepted", "rejected"}

NothingOpenedOrPosted ==
    /\ lastEvent' = "rejected"
    /\ currentValues' = currentValues
    /\ alertDialogOpen' = alertDialogOpen
    /\ posts' = posts

NoComma(s) == \A i \in 1..Len(s) : s[i] # ","

\* C1: a submit of the form whose name_kr is the empty string is rejected,
\* whatever the other fields hold: onSubmit is not called (currentValues and
\* the dialog are left as they were) and nothing is posted.
C1_EmptyNameRejected ==
    [][(IsSubmitStep /\ form.name_kr = Str(<<>>)) => NothingOpenedOrPosted]_vars

C1_Witness ==
    /\ lastEvent = "rejected"
    /\ form.name_kr = Str(<<>>)
    /\ form.note = Str(<<"a", ",", "b">>)
    /\ form.source = Str(<<"s">>)
    /\ ~alertDialogOpen
    /\ posts = <<>>

\* C2: a submit whose note is empty or holds no comma is rejected: the
\* dialog is not opened and nothing is posted; an accepted submit has a
\* non-empty note with at least one comma.
C2_SingleTokenNoteRejected ==
    [][IsSubmitStep =>
          IF form.note.v = <<>> \/ NoComma(form.note.v)
          THEN NothingOpenedOrPosted
          ELSE form.name_kr.v # <<>> => lastEvent' = "accepted"]_vars

C2_Witness ==
    /\ lastEvent = "rejected"
    /\ form.name_kr = Str(<<"a">>)
    /\ form.note = Str(<<"a">>)
    /\ ~alertDialogOpen
    /\ posts = <<>>

\* C5: a body is posted only by the confirm action of an open dialog, and
\* it is currentValues; currentValues is set, and the dialog opened, only by
\* a submit that passed formSchema, with the submitted values; an open
\* dialog always has currentValues defined; cancel posts nothing.
C5_PostOnlyAfterConfirm ==
    /\ [](alertDialogOpen =>
             currentValues # {} /\ formSchema(The(currentValues)))
    /\ [][(currentValues' # currentValues \/ (alertDialogOpen' /\ ~alertDialogOpen)) =>
             /\ lastEvent' = "accepted"
             /\ formSchema(form)
             /\ currentValues' = {form}
             /\ alertDialogOpen']_vars
    /\ [][posts' # posts =>
             /\ lastEvent' = "confirm"
             /\ alertDialogOpen
             /\ currentValues # {}
             /\ posts' = Append(posts, The(currentValues))]_vars
    /\ [][lastEvent' = "cancel" => posts' = posts]_vars

C5_Witness ==
    /\ Len(posts) = 2
    /\ lastEvent = "confirm"
    /\ posts[2] = The(currentValues)
    /\ form # The(currentValues)

---------------------------------------------------------------------------
(* Properties of the server action (ActionSpec).                           *)

Malformed(body) == \E f \in Fields : body[f].t # "string"

\* the number the response carries, 0 when it carries none
CarriedNumber(resp) ==
    LET objs == resp.value
        props == UNION {o.properties : o \in objs}
        ids == UNION {m.ID : m \in props}
        uids == UNION {p.unique_id : p \in ids}
        nums == UNION {u.number : u \in uids}
    IN  IF nums = {} THEN 0 ELSE The(nums)

\* C3: for a valid payload and any response createCoffeeInfo resolves with,
\* the action redirects to /coffee/<n>, n the unique-id number of the
\* response, or to /coffee/0 when the response carries no such number.
C3_AlwaysRedirects ==
    (lastReq # {} /\ formSchema(The(lastReq)) /\ lastResp.state = "resolved") =>
        outcome = Redirect(CarriedNumber(lastResp))

\* C4: every argument passed to createCoffeeInfo has a non-empty name_kr
\* and a non-empty note holding a comma.
C4_PersistedRecordsValid ==
    \A i \in 1..Len(created) :
        /\ created[i].name_kr.v # <<>>
        /\ created[i].note.v # <<>>
        /\ ~NoComma(created[i].note.v)

\* C6: a request whose body lacks one of the eight fields, or has a
\* non-string there, ends in the ZodError thrown by CoffeeInfoDTO.parse:
\* createCoffeeInfo is not called, no record is added, nothing is redirected.
C6_MalformedBodyThrows ==
    /\ []((lastReq # {} /\ Malformed(The(lastReq))) =>
             outcome = Thrown("ZodError") /\ lastResp = NoResponse)
    /\ [][(lastReq' # {} /\ Malformed(The(lastReq'))) => created' = created]_vars

C6_Witness ==
    /\ lastReq # {}
    /\ The(lastReq).region = Undef
    /\ The(lastReq).name_kr = Str(<<"a">>)
    /\ outcome = Thrown("ZodError")
    /\ Len(created) = 1

\* C7: every invocation with a well-formed payload adds exactly one record,
\* equal to the payload in all eight fields, after the records already
\* there; no step changes or removes an existing record.  The same payload
\* posted twice is therefore recorded twice.
C7_OneRecordPerInvocation ==
    /\ [][(lastReq' # {} /\ ~Malformed(The(lastReq'))) =>
             created' = Append(created, The(lastReq'))]_vars
    /\ [][/\ Len(created') >= Len(created)
          /\ SubSeq(created', 1, Len(created)) = created]_vars

C7_Witness ==
    /\ Len(created) = 2
    /\ created[1] = created[2]
    /\ created[1] = Typed(<<"a">>, <<"a", ",", "b">>, TRUE)
    /\ lastReq = {created[2]}

\* what the form page can post: the inputs hold strings, and only values
\* that pass formSchema reach fetcher.submit
FormPostable == {jsonBody(v) : v \in {w \in TypedValues : formSchema(w)}}

\* C10 (as amended): every body the form page can post is accepted by
\* CoffeeInfoDTO.parse and passed unchanged to createCoffeeInfo.
C10_FormPostReachesCreate ==
    (lastReq # {} /\ The(lastReq) \in FormPostable) =>
        /\ outcome.kind # "ZodError"
        /\ created # <<>>
        /\ created[Len(created)] = The(lastReq)

C10_Witness ==
    /\ lastReq = {Typed(<<"a">>, <<"a", ",", "b">>, FALSE)}
    /\ outcome.kind = "redirect"
    /\ created # <<>>

\* C10 (as claimed): every body formSchema accepts, optional fields absent
\* included, is accepted by CoffeeInfoDTO.parse.
C10_SchemasAgree ==
    (lastReq # {} /\ formSchema(The(lastReq))) => outcome.kind # "ZodError"

---------------------------------------------------------------------------
(* Properties of the content pipeline (PipelineSpec).                      *)

IsCodeBlock(n) ==
    n.type = "element" /\ n.tagName = "pre" /\ n.children[1].tagName = "code"

\* s holds the event attribute from position i to its closing quote at j
EventAt(s, i, j) ==
    /\ i + Len(EventPrefix) <= j
    /\ j <= Len(s)
    /\ \A k \in 1..Len(EventPrefix) : s[i + k - 1] = EventPrefix[k]
    /\ s[j] = Quote
    /\ \A k \in (i + Len(EventPrefix))..(j - 1) : s[k] # Quote

HasEvent(s) == \E i, j \in 1..Len(s) : EventAt(s, i, j)

\* the leftmost event attribute of s, as a set of at most one <<i, j>>
FirstEvent(s) ==
    {ij \in (1..Len(s)) \X (1..Len(s)) :
        /\ EventAt(s, ij[1], ij[2])
        /\ \A i \in 1..(ij[1] - 1), j \in 1..Len(s) : ~EventAt(s, i, j)}

MetaText(code) == IF code.meta = {} THEN <<>> ELSE The(code.meta)

EventValue(s) == {SubSeq(s, ij[1] + Len(EventPrefix), ij[2] - 1) : ij \in FirstEvent(s)}

WithoutFirstEvent(s) ==
    IF FirstEvent(s) = {} THEN s
    ELSE LET ij == The(FirstEvent(s)) IN SubSeq(s, 1, ij[1] - 1) \o SubSeq(s, ij[2] + 1, Len(s))

NonEmpty(opt) == {x \in opt : x # <<>>}

\* m is n after the metadata pass
RECURSIVE Annotated(_, _)
Annotated(n, m) ==
    IF IsCodeBlock(n)
    THEN LET code == n.children[1] IN
         /\ m.ann.__rawString__ = code.children[1].value
         /\ m.ann.__src__ = n.properties.__src__
         /\ m.ann.__style__ = n.properties.__style__
         /\ m.ann.__event__ = EventValue(MetaText(code))
         /\ m.children[1].meta =
               (IF HasEvent(MetaText(code))
                THEN {WithoutFirstEvent(MetaText(code))} ELSE code.meta)
         /\ [m EXCEPT !.ann = n.ann, !.children[1].meta = code.meta] = n
    ELSE /\ [m EXCEPT !.children = n.children] = n
         /\ Len(m.children) = Len(n.children)
         /\ \A i \in 1..Len(n.children) : Annotated(n.children[i], m.children[i])

\* C8 (as amended): the metadata pass, on every pre whose first child is a
\* code element, sets __rawString__ to the value of the code's first child,
\* copies __src__ and __style__ from the pre's properties and, when meta
\* holds an event attribute, sets __event__ to the value of the leftmost one
\* and removes that one occurrence from meta, the rest of meta unchanged;
\* every other node is left unchanged.
C8_MetadataPass ==
    [][NextPlugin = "annotate" =>
          /\ Len(tree') = Len(tree)
          /\ \A i \in 1..Len(tree) : Annotated(tree[i], tree'[i])]_vars

C8_Witness ==
    /\ stage = 2
    /\ \E i \in 1..Len(tree) :
          /\ tree[i].tagName = "pre"
          /\ tree[i].ann.__event__ = {<<"a">>}
          /\ tree[i].ann.__rawString__ = {<<"c">>}
          /\ tree[i].children[1].meta = {<<"x", " ", " ", "y">>}

RECURSIVE NoEventInMeta(_)
NoEventInMeta(n) ==
    /\ n.tagName = "code" => ~HasEvent(MetaText(n))
    /\ \A i \in 1..Len(n.children) : NoEventInMeta(n.children[i])

\* C8 (as claimed): after the metadata pass no meta carries an event
\* attribute.
C8_NoEventAttributeLeft ==
    stage = 2 => \A i \in 1..Len(tree) : NoEventInMeta(tree[i])

IsFragmentWithPre(n) ==
    /\ n.type = "element" /\ n.tagName = "div"
    /\ n.properties.fragment
    /\ n.children[Len(n.children)].tagName = "pre"

\* m is n after the copy pass
RECURSIVE Copied(_, _)
Copied(n, m) ==
    IF IsFragmentWithPre(n)
    THEN LET k == Len(n.children)
             before == n.children[k].properties
             after == m.children[k].properties
         IN  /\ after.__withMeta__ = {n.children[1].tagName = "div"}
             /\ after.__rawString__ = n.ann.__rawString__
             /\ after.__src__ =
                   (IF NonEmpty(n.ann.__src__) # {} THEN n.ann.__src__ ELSE before.__src__)
             /\ after.__event__ =
                   (IF NonEmpty(n.ann.__event__) # {} THEN n.ann.__event__ ELSE before.__event__)
             /\ after.__style__ =
                   (IF NonEmpty(n.ann.__style__) # {} THEN n.ann.__style__ ELSE before.__style__)
             /\ after.fragment = before.fragment
             /\ [m EXCEPT !.children[k].properties = before] = n
    ELSE /\ [m EXCEPT !.children = n.children] = n
         /\ Len(m.children) = Len(n.children)
         /\ \A i \in 1..Len(n.children) : Copied(n.children[i], m.children[i])

\* out is what the three passes made of the code block or other node src
RECURSIVE Delivered(_, _)
Delivered(src, out) ==
    IF IsCodeBlock(src)
    THEN /\ out.tagName = "div"
         /\ out.properties.fragment
         /\ LET pre == out.children[Len(out.children)] IN
            IF pre.tagName = "pre"
            THEN /\ pre.properties.__rawString__ = src.children[1].children[1].value
                 /\ pre.properties.__withMeta__ = {out.children[1].tagName = "div"}
                 /\ pre.properties.__src__ = NonEmpty(src.properties.__src__)
                 /\ pre.properties.__style__ = NonEmpty(src.properties.__style__)
                 /\ pre.properties.__event__ =
                       NonEmpty(EventValue(MetaText(src.children[1])))
            ELSE \A k \in 1..Len(out.children) :
                    out.children[k].properties = NoProperties
    ELSE /\ [out EXCEPT !.children = src.children] = src
         /\ Len(out.children) = Len(src.children)
         /\ \A i \in 1..Len(src.children) : Delivered(src.children[i], out.children[i])

AllPassesRun == stage = Len(rehypePlugins) + 1

\* C9 (as amended): with the passes in the order metadata, highlighting,
\* copy, the pre that ends a fragment div gets __rawString__ (the code text
\* recorded before highlighting) and __withMeta__ (whether the first child
\* of the div is a div), and gets __src__, __event__ and __style__ exactly
\* when the annotation is present and not the empty string; the copy pass
\* leaves every other node unchanged.
C9_AnnotationsReachOutput ==
    /\ [](AllPassesRun =>
             /\ Len(tree) = Len(source)
             /\ \A i \in 1..Len(tree) : Delivered(source[i], tree[i]))
    /\ [][NextPlugin = "copy" =>
             /\ Len(tree') = Len(tree)
             /\ \A i \in 1..Len(tree) : Copied(tree[i], tree'[i])]_vars

C9_Witness ==
    /\ AllPassesRun
    /\ \E i \in 1..Len(tree) :
          /\ IsFragmentWithPre(tree[i])
          /\ Len(tree[i].children) = 2
          /\ tree[i].children[2].properties.__withMeta__ = {TRUE}
          /\ tree[i].children[2].properties.__event__ = {<<"a">>}
          /\ tree[i].children[2].properties.__rawString__ = {<<"c">>}
          /\ tree[i].children[2].properties.__src__ = {<<"s">>}

RECURSIVE PresentCopied(_)
PresentCopied(n) ==
    /\ IsFragmentWithPre(n) =>
          LET props == n.children[Len(n.children)].properties IN
          /\ n.ann.__src__ # {} => props.__src__ = n.ann.__src__
          /\ n.ann.__event__ # {} => props.__event__ = n.ann.__event__
          /\ n.ann.__style__ # {} => props.__style__ = n.ann.__style__
    /\ \A i \in 1..Len(n.children) : PresentCopied(n.children[i])

\* C9 (as claimed): after the passes every annotation present on a fragment
\* div is on its pre: a present annotation is never dropped.
C9_PresentNeverDropped ==
    AllPassesRun => \A i \in 1..Len(tree) : PresentCopied(tree[i])

===========================================================================
